---- MODULE Spec2Model ----
(***************************************************************************)
(* Model of the MISP betting service: the arithmetic helpers exercised by  *)
(* tests/test_math_utils.py, the season-code helpers of                    *)
(* data_sources/football_data_uk.py and data_collector.py, and the HTTP    *)
(* handlers of main.py over their SQLite and Postgres stores.              *)
(*                                                                         *)
(* Text values are sequences of one-character strings, so that slicing,    *)
(* concatenation and replace() are computed as Python computes them.       *)
(* A table is the bag of its rows: the generated keys (id, snapshot_id)    *)
(* are left out, no statement of the service reads them.                   *)
(***************************************************************************)
EXTENDS Integers, Sequences, FiniteSets, Bags, TLC

VARIABLES
    \* ---- tests/test_math_utils.py ----
    m_a, m_b,          \* operands handed to add / multiply
    m_op,              \* "none" | "add" | "multiply": the last function called
    m_result,          \* its return value
    \* ---- football_data_uk.py / data_collector.py ----
    year,              \* argument of get_season_code
    season_code,       \* its return value (<<>> before the call)
    dl_idx,            \* download_historical_data: number of seasons handled
    dl_urls,           \* download_historical_data: the urls requested so far
    dsd,               \* download_season_data: the call in progress, what it did
    \* ---- main.py: process environment ----
    environ,           \* os.environ: variable name -> value (NoneVal when unset)
    conn_result,       \* what the last get_postgres_connection() call did
    \* ---- main.py: the stores ----
    clock,             \* SQLite CURRENT_TIMESTAMP
    odds_data,         \* SQLite table odds_data: the bag of committed rows
    pg_schema,         \* Postgres: TRUE once the DATA-02 tables exist
    raw_fixtures,      \* Postgres table raw_fixtures: the bag of committed rows
    raw_odds_snapshots,\* Postgres table raw_odds_snapshots: the bag of committed rows
    sq_tx,             \* per request: rows inserted into odds_data, not yet committed
    pg_tx,             \* per request: rows inserted in Postgres, not yet committed
    \* ---- main.py: the requests in progress ----
    frame,             \* per request: the handler running, its position and locals
    resp,              \* per request: the response sent
    exc                \* per request: the exceptions raised so far

pureVars == <<m_a, m_b, m_op, m_result, year, season_code, dl_idx, dl_urls, dsd>>
connVars == <<environ, conn_result>>
storeVars == <<clock, odds_data, pg_schema, raw_fixtures, raw_odds_snapshots, sq_tx, pg_tx>>
reqVars == <<frame, resp, exc>>
serviceVars == <<storeVars, reqVars>>

vars == <<pureVars, connVars, serviceVars>>

\* ------------------------------------------------------------------------
\* Bounds
\* ------------------------------------------------------------------------
\* Operands of add and multiply range over -MaxInt..MaxInt.
MaxInt == 6
MinYear == 985
MaxYear == 10002
\* Games in one answer of the odds API.
MaxGames == 1
\* Rows of odds_data, rows of raw_odds_snapshots, and clock ticks.
MaxOddsRows == 2
MaxSnapshots == 4
MaxClock == 1
\* Migrations run over a table that holds more rows than the SELECT's limit.
MaxBigRuns == 2
\* Server processes handling requests against the same databases.
NumWorkers == 2
Workers == 1..NumWorkers

\* ------------------------------------------------------------------------
\* Generic helpers
\* ------------------------------------------------------------------------
Min(x, y) == IF x <= y THEN x ELSE y

\* The bag of the elements of a sequence.
SeqBag(s) == [x \in {s[i] : i \in DOMAIN s} |-> Cardinality({i \in DOMAIN s : s[i] = x})]

DigitChar(d) == <<"0", "1", "2", "3", "4", "5", "6", "7", "8", "9">>[d + 1]

\* Python str(n) for a non-negative int: its decimal digits, no padding.
RECURSIVE PyStr(_)
PyStr(n) == IF n < 10 THEN <<DigitChar(n)>>
            ELSE PyStr(n \div 10) \o <<DigitChar(n % 10)>>

\* Python s[lo:hi] for 0 <= lo <= hi: the characters at 0-based positions
\* lo .. hi-1 that exist; shorter (possibly empty) when s is short.
PySlice(s, lo, hi) == SubSeq(s, lo + 1, Min(hi, Len(s)))

\* int(s) for a sequence of digit characters.
DigitVal(c) == CHOOSE d \in 0..9 : DigitChar(d) = c
RECURSIVE PyInt(_)
PyInt(s) == IF s = <<>> THEN 0
            ELSE 10 * PyInt(SubSeq(s, 1, Len(s) - 1)) + DigitVal(s[Len(s)])

\* ------------------------------------------------------------------------
\* math_utils (imported by tests/test_math_utils.py)
\* ------------------------------------------------------------------------
add_swapped_sign(a, b) == a - b
add(a, b) == a + b

multiply_as_add(a, b) == a + b
multiply_first_squared(a, b) == a * a
multiply(a, b) == a * b

\* ------------------------------------------------------------------------
\* FootballDataUK.get_season_code
\* ------------------------------------------------------------------------
get_season_code_same_year(y) == PySlice(PyStr(y), 2, 4) \o PySlice(PyStr(y), 2, 4)
get_season_code(y) == PySlice(PyStr(y), 2, 4) \o PySlice(PyStr(y + 1), 2, 4)

\* DataCollector.download_historical_data: the seasons dict, in insertion
\* order, and base_url (abbreviated to its last path segment).
seasons == <<
    [season |-> <<"2","0","2","3","-","2","4">>, path |-> <<"2","3","2","4","/","E","0",".","c","s","v">>],
    [season |-> <<"2","0","2","2","-","2","3">>, path |-> <<"2","2","2","3","/","E","0",".","c","s","v">>],
    [season |-> <<"2","0","2","1","-","2","2">>, path |-> <<"2","1","2","2","/","E","0",".","c","s","v">>],
    [season |-> <<"2","0","2","0","-","2","1">>, path |-> <<"2","0","2","1","/","E","0",".","c","s","v">>],
    [season |-> <<"2","0","1","9","-","2","0">>, path |-> <<"1","9","2","0","/","E","0",".","c","s","v">> ],
    [season |-> <<"2","0","1","8","-","1","9">>, path |-> <<"1","8","1","9","/","E","0",".","c","s","v">>] >>

collector_base_url == <<"m","m","z","4","2","8","1","/">>

\* The starting year of a seasons key such as "2023-24".
SeasonStartYear(key) == PyInt(PySlice(key, 0, 4))
\* The season-code directory of a requested url: what follows base_url, up
\* to the "/" before the file name.
UrlSeasonCode(url) == PySlice(url, Len(collector_base_url), Len(collector_base_url) + 4)

\* ------------------------------------------------------------------------
\* Text values of the service
\* ------------------------------------------------------------------------
\* Python None, kept apart from every text value (all values are sequences).
NoneVal == <<"<None>">>

\* str(v) as an f-string placeholder renders it: None becomes "None".
PyFormat(v) == IF v = NoneVal THEN <<"N", "o", "n", "e">> ELSE v

\* s.replace(' ', '_')
ReplaceSpace(s) == [i \in 1..Len(s) |-> IF s[i] = " " THEN "_" ELSE s[i]]

\* if v: None and the empty string are falsy.
Truthy(v) == v # NoneVal /\ v # <<>>

\* ------------------------------------------------------------------------
\* FootballDataUK.download_season_data
\* ------------------------------------------------------------------------
\* self.leagues and self.base_url (abbreviated to its last path segment).
leagues == [EPL |-> <<"E", "0">>, Championship |-> <<"E", "1">>,
            La_Liga |-> <<"S", "P", "1">>, Bundesliga |-> <<"D", "1">>,
            Serie_A |-> <<"I", "1">>, Ligue_1 |-> <<"F", "1">>]
base_url == <<"m", "m", "z", "4", "2", "8", "1">>

\* self.leagues.get(league): None for a name that is no key.
leagues_get(league) == IF league \in DOMAIN leagues THEN leagues[league] ELSE NoneVal

\* League names a caller may pass: the six keys, a key in another case, a
\* league code in place of its name, the empty string.
LeagueNames == DOMAIN leagues \cup {"epl", "E0", ""}

\* Seasons a caller may ask for.
SeasonYears == {1999, 2009, 2022, 2023}

\* The exception classes the try block can raise, and those of them that
\* derive from requests.exceptions.RequestException (raise_for_status
\* raises HTTPError).
RequestExceptions == {"Timeout", "ConnectionError", "HTTPError"}
DownloadExceptions == RequestExceptions \cup {"ParserError", "EmptyDataError"}

\* What requests.get(url, timeout=30) may do: raise, or return a response
\* with a status code.
NetOutcomes ==
    {[raises |-> e, code |-> 0] : e \in {"Timeout", "ConnectionError"}}
    \cup {[raises |-> "", code |-> c] : c \in {200, 404, 500}}

\* response.raise_for_status(): HTTPError for a 4xx or 5xx status.
raise_for_status(code) == IF code >= 400 /\ code < 600 THEN "HTTPError" ELSE ""

\* What response.text may be, and what pd.read_csv makes of it: a frame
\* with so many rows, or an exception.
Bodies == {"rows", "header_only", "no_columns", "malformed"}
read_csv(body) ==
    CASE body = "rows" -> [raises |-> "", rows |-> 2]
      [] body = "header_only" -> [raises |-> "", rows |-> 0]
      [] body = "no_columns" -> [raises |-> "EmptyDataError", rows |-> 0]
      [] body = "malformed" -> [raises |-> "ParserError", rows |-> 0]

\* The two except clauses of download_season_data: the value returned for
\* an exception raised in the try block, "raise" when no clause matches.
DownloadExcept_requests_only(e) == IF e \in RequestExceptions THEN "None" ELSE "raise"
DownloadExcept(e) ==
    IF e \in RequestExceptions THEN "None"
    ELSE IF e \in DownloadExceptions THEN "None"
    ELSE "raise"

\* No call of download_season_data made yet.
NoDownload ==
    [pc |-> "idle", league |-> "", season_year |-> 0, url |-> <<>>,
     sleeps |-> 0, gets |-> 0, body |-> "", failure |-> "",
     raised |-> "", returned |-> ""]

\* ------------------------------------------------------------------------
\* migrate_odds_to_postgres: the derived fixture id
\* ------------------------------------------------------------------------
FixtureIdNoReplace(row) ==
    PyFormat(row.sport_key) \o <<"_">> \o PyFormat(row.commence_time) \o <<"_">>
        \o PyFormat(row.home_team) \o <<"_", "v", "s", "_">> \o PyFormat(row.away_team)
FixtureId(row) ==
    ReplaceSpace(PyFormat(row.sport_key) \o <<"_">> \o PyFormat(row.commence_time) \o <<"_">>
        \o PyFormat(row.home_team) \o <<"_", "v", "s", "_">> \o PyFormat(row.away_team))

\* The identifying tuple the fixture id is derived from.
FixtureTuple(row) == <<row.sport_key, row.commence_time, row.home_team, row.away_team>>

\* ------------------------------------------------------------------------
\* Process environment and get_postgres_connection
\* ------------------------------------------------------------------------
env_vars == <<"POSTGRES_URL", "DATABASE_URL_NEW", "BETTING_DB_URL", "DATABASE_URL">>
EnvNames == {env_vars[i] : i \in 1..Len(env_vars)} \cup {"ODDS_API_KEY"}

\* A connection string of a database that accepts connections while it is
\* reachable, and one psycopg2.connect always rejects.
GoodUrl == <<"g">>
BadUrl == <<"b">>
UrlValues == {NoneVal, <<>>, GoodUrl, BadUrl}

getenv(e, name) == e[name]

\* The for loop over env_vars: database_url is overwritten by each
\* variable read and the loop breaks at the first truthy one.  i is the
\* next position to read, url the value read last.
RECURSIVE EnvLoopNoBreak(_, _, _, _)
EnvLoopNoBreak(e, i, url, var) ==
    IF i > Len(env_vars) THEN [url |-> url, var |-> var]
    ELSE LET database_url == getenv(e, env_vars[i])
         IN  EnvLoopNoBreak(e, i + 1,
                            IF Truthy(database_url) THEN database_url ELSE url,
                            IF Truthy(database_url) THEN env_vars[i] ELSE var)
RECURSIVE EnvLoop(_, _, _, _)
EnvLoop(e, i, url, var) ==
    IF i > Len(env_vars) THEN [url |-> url, var |-> var]
    ELSE LET database_url == getenv(e, env_vars[i])
         IN  IF Truthy(database_url)
             THEN [url |-> database_url, var |-> env_vars[i]]
             ELSE EnvLoop(e, i + 1, database_url, var)

\* psycopg2.connect(database_url): succeeds when the url names the database
\* and the server is reachable at this moment, raises otherwise.
ConnectSucceeds(url, reachable) == url = GoodUrl /\ reachable

\* The result of a call: conn is TRUE for a connection object and FALSE
\* for None; var is the variable announced by "Using database URL from";
\* attempted tells whether psycopg2.connect was called; raised tells
\* whether an exception left the function.
NoCall == [called |-> FALSE, conn |-> FALSE, var |-> "none",
           attempted |-> FALSE, raised |-> FALSE]

\* The try body.
PgConnectionBody(e, reachable) ==
    LET sel == EnvLoop(e, 1, NoneVal, "none")
    IN  IF ~Truthy(sel.url)
        THEN [called |-> TRUE, conn |-> FALSE, var |-> "none",
              attempted |-> FALSE, raised |-> FALSE]
        ELSE IF ConnectSucceeds(sel.url, reachable)
        THEN [called |-> TRUE, conn |-> TRUE, var |-> sel.var,
              attempted |-> TRUE, raised |-> FALSE]
        ELSE [called |-> TRUE, conn |-> FALSE, var |-> sel.var,
              attempted |-> TRUE, raised |-> TRUE]

\* except Exception: print and return None.
get_postgres_connection_no_except(e, reachable) == PgConnectionBody(e, reachable)
get_postgres_connection(e, reachable) ==
    LET body == PgConnectionBody(e, reachable)
    IN  IF body.raised THEN [body EXCEPT !.raised = FALSE, !.conn = FALSE] ELSE body

\* ------------------------------------------------------------------------
\* The upstream odds API: the JSON documents it may answer with
\* ------------------------------------------------------------------------
Txt_n == <<"n">>
Txt_1 == <<"1">>
Txt_a == <<"a">>
Txt_c == <<"c">>
Txt_a_sp_b == <<"a", " ", "b">>
Txt_a_us_b == <<"a", "_", "b">>
Txt_b_vs_c == <<"b", "_", "v", "s", "_", "c">>
Txt_a_vs_b == <<"a", "_", "v", "s", "_", "b">>
Txt_draw == <<"d", "r", "a", "w">>
Txt_Draw == <<"D", "r", "a", "w">>
Txt_book == <<"k">>
Txt_h2h == <<"h", "2", "h">>
\* A team name of 25 characters.
Txt_long == [i \in 1..25 |-> "x"]

\* Prices are counted in units of 0.0001.
Outcome(name, price) == [name |-> name, price |-> price]

\* A game object with one bookmaker offering one market.
Game(home, away, outcomes) ==
    [malformed |-> FALSE, sport_key |-> Txt_n, sport_title |-> Txt_n,
     commence_time |-> Txt_1, home_team |-> home, away_team |-> away,
     bookmakers |-> <<[key |-> Txt_book,
                       markets |-> <<[key |-> Txt_h2h, outcomes |-> outcomes]>>]>>]

\* A list element that is not an object: game.get raises AttributeError.
MalformedGame ==
    [malformed |-> TRUE, sport_key |-> NoneVal, sport_title |-> NoneVal,
     commence_time |-> NoneVal, home_team |-> NoneVal, away_team |-> NoneVal,
     bookmakers |-> <<>>]

Games ==
    { Game(Txt_a_sp_b, Txt_c, <<Outcome(Txt_a_sp_b, 19100)>>),
      Game(Txt_a_us_b, Txt_c, <<Outcome(Txt_c, 21255)>>),
      Game(Txt_a, Txt_b_vs_c, <<Outcome(Txt_draw, 30000)>>),
      Game(Txt_a_vs_b, Txt_c, <<Outcome(Txt_Draw, 30000)>>),
      Game(Txt_c, Txt_c, <<Outcome(Txt_c, 19100)>>),
      Game(Txt_long, Txt_long, <<Outcome(Txt_long, 19100)>>),
      MalformedGame }

\* The games the single-process service is fed with: two that migrate, to
\* the same fixture id, one whose fixture id is too long for its column, one
\* that is malformed.
ServiceGames ==
    { Game(Txt_a_sp_b, Txt_c, <<Outcome(Txt_a_sp_b, 19100)>>),
      Game(Txt_a_us_b, Txt_c, <<Outcome(Txt_c, 21255)>>),
      Game(Txt_long, Txt_long, <<Outcome(Txt_long, 19100)>>),
      MalformedGame }

\* The documents response.json() may return: lists of at most MaxGames of
\* the given games.
Payloads(games) == UNION {[1..n -> games] : n \in 0..MaxGames}

\* What the upstream answers to one request: no answer at all (requests.get
\* raises), a status code, and for a 200 a body that is JSON or is not.
ApiResponses(games) ==
    {[kind |-> "unreachable", code |-> 0, json |-> FALSE, payload |-> <<>>],
     [kind |-> "answer", code |-> 401, json |-> FALSE, payload |-> <<>>],
     [kind |-> "answer", code |-> 500, json |-> FALSE, payload |-> <<>>],
     [kind |-> "answer", code |-> 200, json |-> FALSE, payload |-> <<>>]}
    \cup {[kind |-> "answer", code |-> 200, json |-> TRUE, payload |-> p] : p \in Payloads(games)}

\* ------------------------------------------------------------------------
\* get_odds: the nested loops over games, bookmakers, markets, outcomes
\* ------------------------------------------------------------------------
RECURSIVE Concat(_)
Concat(ss) == IF ss = <<>> THEN <<>> ELSE Head(ss) \o Concat(Tail(ss))

NoRow == <<>>

\* The row one cursor.execute of get_odds inserts; the timestamp column is
\* filled in by its DEFAULT when the statement runs.
OddsInsertRow(game, bookmaker, market, outcome) ==
    [sport_key |-> game.sport_key, sport_title |-> game.sport_title,
     commence_time |-> game.commence_time, home_team |-> game.home_team,
     away_team |-> game.away_team, bookmaker |-> bookmaker.key,
     market_key |-> market.key, outcome_name |-> outcome.name,
     price |-> outcome.price]

\* The statements the loops run for one game, in order: an insert per
\* outcome, or the exception the game raises.
GameOps(game) ==
    IF game.malformed THEN <<[op |-> "raise", row |-> NoRow]>>
    ELSE Concat([b \in 1..Len(game.bookmakers) |->
           Concat([m \in 1..Len(game.bookmakers[b].markets) |->
             [o \in 1..Len(game.bookmakers[b].markets[m].outcomes) |->
                [op |-> "insert",
                 row |-> OddsInsertRow(game, game.bookmakers[b],
                                       game.bookmakers[b].markets[m],
                                       game.bookmakers[b].markets[m].outcomes[o])]]])])

PayloadOps(payload) == Concat([g \in 1..Len(payload) |-> GameOps(payload[g])])

\* ------------------------------------------------------------------------
\* migrate_odds_to_postgres: SELECT ... ORDER BY timestamp DESC LIMIT 100
\* ------------------------------------------------------------------------
MigrateLimit == 100

\* number copies of a row, as a bag and in a row.
Copies(row, number) == [r \in {row} |-> number]
Run(row, number) == [i \in 1..number |-> row]

\* The results the SELECT may return for a table with the given LIMIT:
\* its rows by descending timestamp, in any order among equal timestamps
\* (the statement does not fix it), cut to the first limit rows.  A result
\* is built run by run: some copies of a row of latest timestamp, then a
\* result for the rest that starts with another row than prev.
RECURSIVE SelectOrdered(_, _, _)
SelectOrdered(table, limit, prev) ==
    IF limit = 0 \/ BagToSet(table) = {} THEN {<<>>}
    ELSE LET latest == {r \in BagToSet(table) :
                           \A q \in BagToSet(table) : q.timestamp <= r.timestamp}
         IN  UNION {UNION {{Run(r, j) \o rest :
                               rest \in SelectOrdered(table (-) Copies(r, j), limit - j, r)} :
                             j \in 1..Min(CopiesIn(r, table), limit)} :
                      r \in latest \ {prev}}

SelectRecentOddsNoLimit(table) == SelectOrdered(table, BagCardinality(table), NoRow)
SelectRecentOdds(table) == SelectOrdered(table, MigrateLimit, NoRow)

\* ------------------------------------------------------------------------
\* Postgres: the columns of raw_fixtures and raw_odds_snapshots
\* ------------------------------------------------------------------------
FixtureIdMaxLen == 50
SportTypeMaxLen == 20
TeamMaxLen == 100
BookmakerMaxLen == 50
MarketTypeMaxLen == 20
\* DECIMAL(8,3): three decimals, below 10^5; in units of 0.0001.
DecimalLimit == 1000000000

Txt_NBA == <<"N", "B", "A">>
Txt_season == <<"2", "0", "2", "4", "_", "2", "5">>
Txt_upcoming == <<"u", "p", "c", "o", "m", "i", "n", "g">>

\* A value Postgres accepts as a TIMESTAMP: here, a non-empty run of digits.
IsTimestamp(v) ==
    /\ v # NoneVal
    /\ v # <<>>
    /\ \A i \in 1..Len(v) : v[i] \in {"0", "1", "2", "3", "4", "5", "6", "7", "8", "9"}

\* VARCHAR(n) accepts NULL and any text of at most n characters.
VarcharFits(v, n) == v = NoneVal \/ Len(v) <= n

\* The parameters of the INSERT INTO raw_fixtures statement.
FixtureRow(row) ==
    [fixture_id |-> FixtureId(row), sport_type |-> row.sport_key,
     league |-> Txt_NBA, home_team |-> row.home_team, away_team |-> row.away_team,
     fixture_date |-> row.commence_time, season |-> Txt_season,
     status |-> Txt_upcoming]

\* The error the INSERT INTO raw_fixtures raises for these values, "ok"
\* when the values fit the columns.
FixtureInsertError(f) ==
    IF ~VarcharFits(f.fixture_id, FixtureIdMaxLen) \/ ~VarcharFits(f.sport_type, SportTypeMaxLen)
       \/ ~VarcharFits(f.home_team, TeamMaxLen) \/ ~VarcharFits(f.away_team, TeamMaxLen)
    THEN "value too long for type character varying"
    ELSE IF f.fixture_date # NoneVal /\ ~IsTimestamp(f.fixture_date)
    THEN "invalid input syntax for type timestamp"
    ELSE IF NoneVal \in {f.sport_type, f.home_team, f.away_team, f.fixture_date}
    THEN "null value violates not-null constraint"
    ELSE "ok"

\* A price stored in a DECIMAL(8,3) column: rounded to three decimals, half
\* away from zero.  None stays NULL.
NoPrice == -1
ToDecimal83(price) == IF price = NoPrice THEN NoPrice ELSE ((price + 5) \div 10) * 10

\* The parameters of the INSERT INTO raw_odds_snapshots statement.
SnapshotRow_capital_Draw(row) ==
    [fixture_id |-> FixtureId(row), bookmaker |-> row.bookmaker,
     market_type |-> row.market_key,
     home_odds |-> IF row.outcome_name = row.home_team THEN row.price ELSE NoPrice,
     away_odds |-> IF row.outcome_name = row.away_team THEN row.price ELSE NoPrice,
     draw_odds |-> IF row.outcome_name = Txt_Draw THEN row.price ELSE NoPrice,
     snapshot_timestamp |-> row.timestamp]
SnapshotRow(row) ==
    [fixture_id |-> FixtureId(row), bookmaker |-> row.bookmaker,
     market_type |-> row.market_key,
     home_odds |-> IF row.outcome_name = row.home_team THEN row.price ELSE NoPrice,
     away_odds |-> IF row.outcome_name = row.away_team THEN row.price ELSE NoPrice,
     draw_odds |-> IF row.outcome_name = Txt_draw THEN row.price ELSE NoPrice,
     snapshot_timestamp |-> row.timestamp]

\* The row as the table stores it.
StoredSnapshot(sn) ==
    [sn EXCEPT !.home_odds = ToDecimal83(@), !.away_odds = ToDecimal83(@),
               !.draw_odds = ToDecimal83(@)]

\* The error the INSERT INTO raw_odds_snapshots raises, "ok" when none;
\* fixtures holds the raw_fixtures rows the statement can see.
SnapshotInsertError(sn, fixtures) ==
    IF ~VarcharFits(sn.fixture_id, FixtureIdMaxLen) \/ ~VarcharFits(sn.bookmaker, BookmakerMaxLen)
       \/ ~VarcharFits(sn.market_type, MarketTypeMaxLen)
    THEN "value too long for type character varying"
    ELSE IF \E o \in {sn.home_odds, sn.away_odds, sn.draw_odds} : ToDecimal83(o) >= DecimalLimit
    THEN "numeric field overflow"
    ELSE IF NoneVal \in {sn.bookmaker, sn.market_type}
    THEN "null value violates not-null constraint"
    ELSE IF ~\E f \in BagToSet(fixtures) : f.fixture_id = sn.fixture_id
    THEN "violates foreign key constraint"
    ELSE "ok"

\* ------------------------------------------------------------------------
\* Requests: frames, responses, exceptions
\* ------------------------------------------------------------------------
\* The locals of a handler.  sq_conn and pg_conn are "none" until the
\* handler opens a connection, then "open", and "closed" after close().
NoApiResponse == [kind |-> "none", code |-> 0, json |-> FALSE, payload |-> <<>>]
IdleFrame ==
    [pc |-> "idle", handler |-> "none", sqlite_data |-> <<>>, idx |-> 0,
     migrated_count |-> 0, response |-> NoApiResponse, ops |-> <<>>, games_count |-> 0,
     sq_conn |-> "none", pg_conn |-> "none"]

NoResp == [http |-> 0, status |-> "", message |-> "", postgres |-> "", count |-> -1]
Response(status, message) ==
    [http |-> 200, status |-> status, message |-> message, postgres |-> "", count |-> -1]

\* return {"status": "error", "message": str(e)} of an except clause.
ErrorResponse_as_success(e) == Response("success", e)
ErrorResponse(e) == Response("error", e)

\* What the framework answers when an exception leaves a handler.
Unhandled(e) == [NoResp EXCEPT !.http = 500, !.message = e]

\* step_error is the message of the first exception any step of the
\* request raised ("" when none did), wherever it was caught; caught is
\* the message of the exception that reached the handler's own except
\* clause.
NoExc == [step_error |-> "", caught |-> ""]
StepFailed(e) == [step_error |-> e, caught |-> ""]
Caught(e) == [step_error |-> e, caught |-> e]
ThenCaught(x, e) ==
    [step_error |-> IF x.step_error = "" THEN e ELSE x.step_error, caught |-> e]

EmptyPgTx == [fixtures |-> <<>>, snapshots |-> <<>>]

Err_connect == "could not connect to server"
Err_server == "server closed the connection unexpectedly"
Err_relation == "relation does not exist"
Err_deadlock == "deadlock detected"
Err_sqlite_open == "unable to open database file"
Err_sqlite_io == "disk I/O error"
Err_sqlite_locked == "database is locked"
Err_request == "connection error"
Err_json == "Expecting value"
Err_attribute == "object has no attribute 'get'"

\* The handler of request w returns response r (or lets exception leave
\* it), with its locals as in fr.
Return(w, fr, r, x) ==
    /\ frame' = [frame EXCEPT ![w] = [fr EXCEPT !.pc = "returned"]]
    /\ resp' = [resp EXCEPT ![w] = r]
    /\ exc' = [exc EXCEPT ![w] = x]

Starting(w, name) == [IdleFrame EXCEPT !.handler = name]

\* The connection get_postgres_connection hands to a handler.
PgConnState(r) == IF r.conn THEN "open" ELSE "none"
\* The exception record after the call: a failed connect is a failed step
\* even though the function swallows it.
PgConnExc(r) == IF r.attempted /\ ~r.conn THEN StepFailed(Err_connect) ELSE NoExc

\* ------------------------------------------------------------------------
\* Initial states
\* ------------------------------------------------------------------------
MathIdle == m_a = 0 /\ m_b = 0 /\ m_op = "none" /\ m_result = 0
SeasonIdle == year = 2023 /\ season_code = <<>> /\ dl_idx = 0 /\ dl_urls = <<>> /\ dsd = NoDownload
ConnIdle == environ = [v \in EnvNames |-> NoneVal] /\ conn_result = NoCall
\* init_db() has created the SQLite tables; nothing is stored yet and no
\* request is in progress.
ServiceIdle ==
    /\ clock = 0
    /\ odds_data = EmptyBag
    /\ pg_schema = FALSE
    /\ raw_fixtures = EmptyBag
    /\ raw_odds_snapshots = EmptyBag
    /\ sq_tx = [w \in Workers |-> <<>>]
    /\ pg_tx = [w \in Workers |-> EmptyPgTx]
    /\ frame = [w \in Workers |-> IdleFrame]
    /\ resp = [w \in Workers |-> NoResp]
    /\ exc = [w \in Workers |-> NoExc]

MathInit ==
    /\ m_a \in (-MaxInt)..MaxInt /\ m_b \in (-MaxInt)..MaxInt
    /\ m_op = "none" /\ m_result = 0
    /\ SeasonIdle /\ ConnIdle /\ ServiceIdle

SeasonInit ==
    /\ year \in MinYear..MaxYear
    /\ season_code = <<>> /\ dl_idx = 0 /\ dl_urls = <<>> /\ dsd = NoDownload
    /\ MathIdle /\ ConnIdle /\ ServiceIdle

\* The process may be started with any setting of the four database
\* variables; ODDS_API_KEY is left unset here.
ConnInit ==
    /\ environ \in {e \in [EnvNames -> UrlValues] : e["ODDS_API_KEY"] = NoneVal}
    /\ conn_result = NoCall
    /\ MathIdle /\ SeasonIdle /\ ServiceIdle

\* ------------------------------------------------------------------------
\* Actions: arithmetic
\* ------------------------------------------------------------------------
CallAdd ==
    /\ m_op = "none"
    /\ m_op' = "add"
    /\ m_result' = add(m_a, m_b)
    /\ UNCHANGED <<m_a, m_b, year, season_code, dl_idx, dl_urls, dsd, connVars, serviceVars>>

CallMultiply ==
    /\ m_op = "none"
    /\ m_op' = "multiply"
    /\ m_result' = multiply(m_a, m_b)
    /\ UNCHANGED <<m_a, m_b, year, season_code, dl_idx, dl_urls, dsd, connVars, serviceVars>>

MathNext == CallAdd \/ CallMultiply

MathSpec == MathInit /\ [][MathNext]_vars

\* ------------------------------------------------------------------------
\* Actions: season codes
\* ------------------------------------------------------------------------
GetSeasonCode ==
    /\ season_code = <<>>
    /\ season_code' = get_season_code(year)
    /\ UNCHANGED <<m_a, m_b, m_op, m_result, year, dl_idx, dl_urls, dsd, connVars, serviceVars>>

\* One iteration of the loop of download_historical_data: the url of the
\* next season is built and read; a failed read is caught and the loop
\* goes on, so the iteration is the same either way.
DownloadHistoricalStep ==
    /\ dl_idx < Len(seasons)
    /\ dl_idx' = dl_idx + 1
    /\ dl_urls' = Append(dl_urls, collector_base_url \o seasons[dl_idx + 1].path)
    /\ UNCHANGED <<m_a, m_b, m_op, m_result, year, season_code, dsd, connVars, serviceVars>>

SeasonNext == GetSeasonCode \/ DownloadHistoricalStep

SeasonSpec == SeasonInit /\ [][SeasonNext]_vars

\* ------------------------------------------------------------------------
\* Actions: FootballDataUK.download_season_data
\* ------------------------------------------------------------------------
\* The call up to the try block: season code, league lookup, ValueError for
\* an unknown league, else the url.
dsd_call(league, season_year) ==
    /\ dsd.pc = "idle"
    /\ LET code == get_season_code(season_year)
           league_code == leagues_get(league)
       IN  IF ~Truthy(league_code)
           THEN dsd' = [dsd EXCEPT !.pc = "done", !.league = league,
                                   !.season_year = season_year,
                                   !.raised = "ValueError"]
           ELSE dsd' = [dsd EXCEPT !.pc = "sleep", !.league = league,
                                   !.season_year = season_year,
                                   !.url = base_url \o <<"/">> \o code \o <<"/">>
                                           \o league_code \o <<".", "c", "s", "v">>]
    /\ UNCHANGED <<m_a, m_b, m_op, m_result, year, season_code, dl_idx, dl_urls,
                   connVars, serviceVars>>

\* An exception raised in the try block goes through the except clauses.
DownloadFails(e) ==
    LET r == DownloadExcept(e)
    IN  [dsd EXCEPT !.pc = "done", !.failure = e,
                    !.raised = IF r = "raise" THEN e ELSE "",
                    !.returned = IF r = "raise" THEN "" ELSE r]

\* time.sleep(1)
dsd_sleep ==
    /\ dsd.pc = "sleep"
    /\ dsd' = [dsd EXCEPT !.pc = "get", !.sleeps = @ + 1]
    /\ UNCHANGED <<m_a, m_b, m_op, m_result, year, season_code, dl_idx, dl_urls,
                   connVars, serviceVars>>

\* requests.get and raise_for_status.
dsd_get(net, body) ==
    /\ dsd.pc = "get"
    /\ LET sent == [dsd EXCEPT !.gets = @ + 1]
           e == IF net.raises # "" THEN net.raises ELSE raise_for_status(net.code)
       IN  IF e # ""
           THEN dsd' = [DownloadFails(e) EXCEPT !.gets = sent.gets]
           ELSE dsd' = [sent EXCEPT !.pc = "parse", !.body = body]
    /\ UNCHANGED <<m_a, m_b, m_op, m_result, year, season_code, dl_idx, dl_urls,
                   connVars, serviceVars>>

\* pd.read_csv, the df.empty test and the return.
dsd_parse ==
    /\ dsd.pc = "parse"
    /\ LET df == read_csv(dsd.body)
       IN  IF df.raises # ""
           THEN dsd' = DownloadFails(df.raises)
           ELSE IF df.rows = 0
           THEN dsd' = [dsd EXCEPT !.pc = "done", !.failure = "empty", !.returned = "None"]
           ELSE dsd' = [dsd EXCEPT !.pc = "done", !.returned = "DataFrame"]
    /\ UNCHANGED <<m_a, m_b, m_op, m_result, year, season_code, dl_idx, dl_urls,
                   connVars, serviceVars>>

DownloadInit == MathIdle /\ SeasonIdle /\ ConnIdle /\ ServiceIdle

DownloadNext ==
    \/ \E league \in LeagueNames, season_year \in SeasonYears : dsd_call(league, season_year)
    \/ dsd_sleep
    \/ \E net \in NetOutcomes, body \in Bodies : dsd_get(net, body)
    \/ dsd_parse

DownloadSpec == DownloadInit /\ [][DownloadNext]_vars

\* ------------------------------------------------------------------------
\* Actions: get_postgres_connection on its own
\* ------------------------------------------------------------------------
CallGetPostgresConnection(reachable) ==
    /\ ~conn_result.called
    /\ conn_result' = get_postgres_connection(environ, reachable)
    /\ UNCHANGED <<pureVars, environ, serviceVars>>

ConnNext == \E reachable \in BOOLEAN : CallGetPostgresConnection(reachable)

ConnSpec == ConnInit /\ [][ConnNext]_vars

\* ------------------------------------------------------------------------
\* Actions: the handlers of main.py
\*
\* Each handler is an async function without an await: within one server
\* process requests run one after the other.  The workers are server
\* processes sharing betting_data.db and the Postgres database, and their
\* steps interleave at the statements that touch the stores.
\* ------------------------------------------------------------------------
Idle(w) == frame[w].pc = "idle"

\* GET /
root(w) ==
    /\ Idle(w)
    /\ Return(w, Starting(w, "root"), Response("active", "MISP Betting API v2.0"), NoExc)
    /\ UNCHANGED <<pureVars, connVars, storeVars>>

\* GET /health: no try block, and the connection it obtains is dropped
\* without close().
health_check(w, reachable) ==
    /\ Idle(w)
    /\ LET r == get_postgres_connection(environ, reachable)
           fr == [Starting(w, "health_check") EXCEPT !.pg_conn = PgConnState(r)]
       IN  IF r.raised
           THEN Return(w, fr, Unhandled(Err_connect), StepFailed(Err_connect))
           ELSE Return(w, fr,
                       [Response("healthy", "") EXCEPT
                            !.postgres = IF r.conn THEN "connected" ELSE "not_configured"],
                       PgConnExc(r))
    /\ UNCHANGED <<pureVars, connVars, storeVars>>

\* POST /data/init-postgres.  fault names the statement at which the server
\* connection breaks: the CREATE TABLE script, the commit, or the query
\* that lists the tables; "none" when it holds.
initialize_postgres_schema(w, reachable, fault) ==
    /\ Idle(w)
    /\ LET r == get_postgres_connection(environ, reachable)
           fr == [Starting(w, "initialize_postgres_schema") EXCEPT !.pg_conn = PgConnState(r)]
       IN  IF r.raised
           THEN /\ Return(w, fr, ErrorResponse(Err_connect), Caught(Err_connect))
                /\ UNCHANGED pg_schema
           ELSE IF ~r.conn
           THEN /\ Return(w, fr,
                          Response("error", "PostgreSQL not configured. Set POSTGRES_URL environment variable."),
                          PgConnExc(r))
                /\ UNCHANGED pg_schema
           ELSE IF fault \in {"create", "commit"}
           THEN /\ Return(w, fr, ErrorResponse(Err_server), Caught(Err_server))
                /\ UNCHANGED pg_schema
           ELSE IF fault = "verify"
           THEN /\ Return(w, fr, ErrorResponse(Err_server), Caught(Err_server))
                /\ pg_schema' = TRUE
           ELSE /\ Return(w, [fr EXCEPT !.pg_conn = "closed"],
                          Response("success", "Postgres schema initialized for DATA-02"), NoExc)
                /\ pg_schema' = TRUE
    /\ UNCHANGED <<pureVars, connVars, clock, odds_data, raw_fixtures, raw_odds_snapshots,
                   sq_tx, pg_tx>>

\* GET /data/postgres-health.  fault: "version" breaks SELECT version(),
\* "count" breaks a SELECT COUNT(*) of the table loop, whose bare except
\* swallows it; a missing table fails the count the same way.
postgres_health_check(w, reachable, fault) ==
    /\ Idle(w)
    /\ LET r == get_postgres_connection(environ, reachable)
           fr == [Starting(w, "postgres_health_check") EXCEPT !.pg_conn = PgConnState(r)]
       IN  IF r.raised
           THEN Return(w, fr, ErrorResponse(Err_connect), Caught(Err_connect))
           ELSE IF ~r.conn
           THEN Return(w, fr, Response("error", "PostgreSQL not configured"), PgConnExc(r))
           ELSE IF fault = "version"
           THEN Return(w, fr, ErrorResponse(Err_server), Caught(Err_server))
           ELSE Return(w, [fr EXCEPT !.pg_conn = "closed"],
                       [Response("success", "") EXCEPT !.postgres = "postgres_connected"],
                       IF fault = "count" THEN StepFailed(Err_server)
                       ELSE IF ~pg_schema THEN StepFailed(Err_relation)
                       ELSE NoExc)
    /\ UNCHANGED <<pureVars, connVars, storeVars>>

\* The three handlers that only read SQLite: connect, run the queries,
\* close, all inside one try block.  fault: "connect" fails
\* sqlite3.connect, "execute" fails a query.
SqliteReadHandler(w, name, fault) ==
    /\ Idle(w)
    /\ IF fault = "connect"
       THEN Return(w, Starting(w, name), ErrorResponse(Err_sqlite_open), Caught(Err_sqlite_open))
       ELSE IF fault = "execute"
       THEN Return(w, [Starting(w, name) EXCEPT !.sq_conn = "open"],
                   ErrorResponse(Err_sqlite_io), Caught(Err_sqlite_io))
       ELSE Return(w, [Starting(w, name) EXCEPT !.sq_conn = "closed"],
                   Response("success", ""), NoExc)
    /\ UNCHANGED <<pureVars, connVars, storeVars>>

\* GET /data/health
data_health(w, fault) == SqliteReadHandler(w, "data_health", fault)
\* GET /data/odds/latest
get_latest_odds(w, fault) == SqliteReadHandler(w, "get_latest_odds", fault)
\* GET /data/tables
get_table_info(w, fault) == SqliteReadHandler(w, "get_table_info", fault)

\* GET and POST /etl/historical-fixtures
run_historical_etl_with_insert(w) ==
    /\ Idle(w)
    /\ Return(w, Starting(w, "run_historical_etl"),
              Response("success", "ETL endpoint reached successfully"), NoExc)
    /\ odds_data' = odds_data (+) SetToBag({
                           [sport_key |-> Txt_n, sport_title |-> Txt_n,
                            commence_time |-> Txt_1, home_team |-> Txt_a,
                            away_team |-> Txt_c, bookmaker |-> Txt_book,
                            market_key |-> Txt_h2h, outcome_name |-> Txt_a,
                            price |-> 19100, timestamp |-> clock]})
    /\ UNCHANGED <<pureVars, connVars, clock, pg_schema, raw_fixtures, raw_odds_snapshots,
                   sq_tx, pg_tx>>
run_historical_etl(w) ==
    /\ Idle(w)
    /\ Return(w, Starting(w, "run_historical_etl"),
              Response("success", "ETL endpoint reached successfully"), NoExc)
    /\ UNCHANGED <<pureVars, connVars, storeVars>>

\* GET /etl/status
get_etl_status(w) ==
    /\ Idle(w)
    /\ Return(w, Starting(w, "get_etl_status"), Response("ready", "ETL system initialized"), NoExc)
    /\ UNCHANGED <<pureVars, connVars, storeVars>>

\* ------------------------------------------------------------------------
\* POST /data/migrate-to-postgres
\* ------------------------------------------------------------------------
RECURSIVE SumOver(_, _)
SumOver(f, S) == IF S = {} THEN 0
                 ELSE LET x == CHOOSE y \in S : TRUE IN f[x] + SumOver(f, S \ {x})

Migrating(w) == frame[w].pc \in {"mig_fixture", "mig_snapshot", "mig_commit"}
\* Snapshot rows the migrations in progress are still to commit.
SnapshotsInFlight == SumOver([w \in Workers |-> IF Migrating(w) THEN Len(frame[w].sqlite_data) ELSE 0], Workers)
\* Snapshot rows a behaviour may come to store: MaxSnapshots, and over a
\* table above the SELECT's limit MaxBigRuns runs.
SnapshotRoom ==
    IF BagCardinality(odds_data) > MigrateLimit THEN MaxBigRuns * MigrateLimit ELSE MaxSnapshots

\* The handler up to the loop: read odds_data from SQLite, close that
\* connection, connect to Postgres.  fault: "connect" fails
\* sqlite3.connect, "execute" fails the SELECT; rows is the SELECT's result.
migrate_start(w, fault, rows, reachable) ==
    /\ Idle(w)
    /\ LET name == "migrate_odds_to_postgres"
           r == get_postgres_connection(environ, reachable)
           fr == [Starting(w, name) EXCEPT !.sq_conn = "closed", !.pg_conn = PgConnState(r)]
       IN  IF fault = "connect"
           THEN Return(w, Starting(w, name), ErrorResponse(Err_sqlite_open), Caught(Err_sqlite_open))
           ELSE IF fault = "execute"
           THEN Return(w, [Starting(w, name) EXCEPT !.sq_conn = "open"],
                       ErrorResponse(Err_sqlite_io), Caught(Err_sqlite_io))
           ELSE IF r.raised
           THEN Return(w, fr, ErrorResponse(Err_connect), Caught(Err_connect))
           ELSE IF ~r.conn
           THEN Return(w, fr, Response("error", "PostgreSQL not available"), PgConnExc(r))
           ELSE /\ BagCardinality(raw_odds_snapshots) + SnapshotsInFlight + Len(rows) <= SnapshotRoom
                /\ frame' = [frame EXCEPT ![w] =
                       [fr EXCEPT !.sqlite_data = rows, !.idx = 1,
                                  !.pc = IF rows = <<>> THEN "mig_commit" ELSE "mig_fixture"]]
                /\ UNCHANGED <<resp, exc>>
    /\ UNCHANGED <<pureVars, connVars, storeVars>>

\* The exception handler of migrate: the Postgres connection stays open,
\* with whatever the transaction inserted so far uncommitted.
MigrateFails_committing(w, e) ==
    /\ Return(w, frame[w], ErrorResponse(e), ThenCaught(exc[w], e))
    /\ raw_fixtures' = raw_fixtures (+) SeqBag(pg_tx[w].fixtures)
    /\ raw_odds_snapshots' = raw_odds_snapshots (+) SeqBag(pg_tx[w].snapshots)
    /\ pg_tx' = [pg_tx EXCEPT ![w] = EmptyPgTx]
    /\ UNCHANGED <<pureVars, connVars, clock, odds_data, pg_schema, sq_tx>>
MigrateFails(w, e) ==
    /\ Return(w, frame[w], ErrorResponse(e), ThenCaught(exc[w], e))
    /\ UNCHANGED <<pureVars, connVars, storeVars>>

CurrentRow(w) == frame[w].sqlite_data[frame[w].idx]

\* The raw_fixtures rows the statements of request w see: the committed
\* ones and those of its own transaction.
VisibleFixtures(w) == raw_fixtures (+) SeqBag(pg_tx[w].fixtures)

HasFixture(fixtures, id) == \E f \in BagToSet(fixtures) : f.fixture_id = id

\* Request w is about to insert a fixture whose id another transaction v
\* has inserted and not yet committed: the insert waits for v to end.
WaitsFor(w, v) ==
    /\ w # v
    /\ frame[w].pc = "mig_fixture"
    /\ pg_schema
    /\ FixtureInsertError(FixtureRow(CurrentRow(w))) = "ok"
    /\ ~HasFixture(VisibleFixtures(w), FixtureId(CurrentRow(w)))
    /\ HasFixture(SeqBag(pg_tx[v].fixtures), FixtureId(CurrentRow(w)))

RECURSIVE WaitPath(_, _, _)
WaitPath(w, v, n) ==
    \/ WaitsFor(w, v)
    \/ n > 0 /\ \E u \in Workers : WaitsFor(w, u) /\ WaitPath(u, v, n - 1)

\* INSERT INTO raw_fixtures ... ON CONFLICT (fixture_id) DO NOTHING.
\* fault: the server connection breaks at this statement.
InsertFixtureNoConflictCheck(w, f) == pg_tx' = [pg_tx EXCEPT ![w].fixtures = Append(@, f)]
InsertFixture(w, f) ==
    IF HasFixture(VisibleFixtures(w), f.fixture_id)
    THEN UNCHANGED pg_tx
    ELSE pg_tx' = [pg_tx EXCEPT ![w].fixtures = Append(@, f)]

migrate_fixture(w, fault) ==
    /\ frame[w].pc = "mig_fixture"
    /\ LET f == FixtureRow(CurrentRow(w))
       IN  IF fault THEN MigrateFails(w, Err_server)
           ELSE IF ~pg_schema THEN MigrateFails(w, Err_relation)
           ELSE IF FixtureInsertError(f) # "ok" THEN MigrateFails(w, FixtureInsertError(f))
           ELSE /\ ~\E v \in Workers : WaitsFor(w, v)
                /\ InsertFixture(w, f)
                /\ frame' = [frame EXCEPT ![w].pc = "mig_snapshot"]
                /\ UNCHANGED <<pureVars, connVars, clock, odds_data, pg_schema, raw_fixtures,
                               raw_odds_snapshots, sq_tx, resp, exc>>

\* Postgres breaks a cycle of waiting transactions by failing one of them.
migrate_deadlock(w) ==
    /\ \E v \in Workers : WaitsFor(w, v) /\ WaitPath(v, w, NumWorkers)
    /\ MigrateFails(w, Err_deadlock)

\* INSERT INTO raw_odds_snapshots, then migrated_count += 1 and on to the
\* next row.
migrate_snapshot(w, fault) ==
    /\ frame[w].pc = "mig_snapshot"
    /\ LET sn == SnapshotRow(CurrentRow(w))
           last == frame[w].idx = Len(frame[w].sqlite_data)
       IN  IF fault THEN MigrateFails(w, Err_server)
           ELSE IF ~pg_schema THEN MigrateFails(w, Err_relation)
           ELSE IF SnapshotInsertError(sn, VisibleFixtures(w)) # "ok"
           THEN MigrateFails(w, SnapshotInsertError(sn, VisibleFixtures(w)))
           ELSE /\ pg_tx' = [pg_tx EXCEPT ![w].snapshots = Append(@, StoredSnapshot(sn))]
                /\ frame' = [frame EXCEPT ![w].migrated_count = @ + 1,
                                          ![w].idx = @ + 1,
                                          ![w].pc = IF last THEN "mig_commit" ELSE "mig_fixture"]
                /\ UNCHANGED <<pureVars, connVars, clock, odds_data, pg_schema, raw_fixtures,
                               raw_odds_snapshots, sq_tx, resp, exc>>

\* pg_conn.commit(), pg_conn.close() and the success response.
migrate_commit(w, fault) ==
    /\ frame[w].pc = "mig_commit"
    /\ IF fault THEN MigrateFails(w, Err_server)
       ELSE /\ raw_fixtures' = raw_fixtures (+) SeqBag(pg_tx[w].fixtures)
            /\ raw_odds_snapshots' = raw_odds_snapshots (+) SeqBag(pg_tx[w].snapshots)
            /\ pg_tx' = [pg_tx EXCEPT ![w] = EmptyPgTx]
            /\ Return(w, [frame[w] EXCEPT !.pg_conn = "closed"],
                      [Response("success", "Migrated odds records to Postgres") EXCEPT
                           !.count = frame[w].migrated_count],
                      exc[w])
            /\ UNCHANGED <<pureVars, connVars, clock, odds_data, pg_schema, sq_tx>>

\* ------------------------------------------------------------------------
\* GET /data/odds
\* ------------------------------------------------------------------------
DefaultApiKey == <<"7", "7", "d", "4">>
PlaceholderApiKey == <<"y", "o", "u", "r">>

\* os.getenv("ODDS_API_KEY", default)
ApiKey(e) == IF getenv(e, "ODDS_API_KEY") = NoneVal THEN DefaultApiKey
             ELSE getenv(e, "ODDS_API_KEY")

InsertCount(ops) == Cardinality({i \in 1..Len(ops) : ops[i].op = "insert"})
FetchingOdds(w) == frame[w].pc \in {"odds_insert", "odds_commit"}
\* Rows the get_odds requests in progress may still add to odds_data.
OddsRowsInFlight == SumOver([w \in Workers |-> IF FetchingOdds(w) THEN InsertCount(frame[w].ops) ELSE 0], Workers)

\* The handler up to the insert loop: the key check, the request to the
\* odds API (api is its answer), response.json() and the SQLite connect
\* (fault "connect" fails it).
get_odds_start(w, api, fault) ==
    /\ Idle(w)
    /\ LET name == "get_odds"
           ops == PayloadOps(api.payload)
           asked == [Starting(w, name) EXCEPT !.response = api]
       IN  IF ~Truthy(ApiKey(environ)) \/ ApiKey(environ) = PlaceholderApiKey
           THEN Return(w, Starting(w, name),
                       Response("error", "API key not configured. Please set ODDS_API_KEY environment variable."),
                       NoExc)
           ELSE IF api.kind = "unreachable"
           THEN Return(w, asked, ErrorResponse(Err_request), Caught(Err_request))
           ELSE IF api.code = 401
           THEN Return(w, asked,
                       Response("error", "Invalid API key. Please check your ODDS_API_KEY environment variable."),
                       NoExc)
           ELSE IF api.code # 200
           THEN Return(w, asked,
                       Response("error", "API request failed with status"), NoExc)
           ELSE IF ~api.json
           THEN Return(w, asked, ErrorResponse(Err_json), Caught(Err_json))
           ELSE IF fault = "connect"
           THEN Return(w, asked, ErrorResponse(Err_sqlite_open), Caught(Err_sqlite_open))
           ELSE /\ BagCardinality(odds_data) + OddsRowsInFlight + InsertCount(ops) <= MaxOddsRows
                /\ frame' = [frame EXCEPT ![w] =
                       [asked EXCEPT
                            !.sq_conn = "open", !.ops = ops, !.idx = 1,
                            !.games_count = Len(api.payload),
                            !.pc = IF ops = <<>> THEN "odds_commit" ELSE "odds_insert"]]
                /\ UNCHANGED <<resp, exc>>
    /\ UNCHANGED <<pureVars, connVars, storeVars>>

\* The exception handler of get_odds: the SQLite connection stays open
\* with its inserts uncommitted.
OddsFails_committing(w, e) ==
    /\ Return(w, frame[w], ErrorResponse(e), ThenCaught(exc[w], e))
    /\ odds_data' = odds_data (+) SeqBag(sq_tx[w])
    /\ sq_tx' = [sq_tx EXCEPT ![w] = <<>>]
    /\ UNCHANGED <<pureVars, connVars, clock, pg_schema, raw_fixtures, raw_odds_snapshots, pg_tx>>
OddsFails(w, e) ==
    /\ Return(w, frame[w], ErrorResponse(e), ThenCaught(exc[w], e))
    /\ UNCHANGED <<pureVars, connVars, storeVars>>

\* Another connection holds the write lock of betting_data.db.
SqliteLocked(w) == \E v \in Workers : v # w /\ sq_tx[v] # <<>>

\* One pass of the innermost loop body, or the exception a malformed game
\* raises.  fault: the INSERT fails.  While another connection holds the
\* write lock the INSERT waits.
get_odds_insert(w, fault) ==
    /\ frame[w].pc = "odds_insert"
    /\ LET op == frame[w].ops[frame[w].idx]
           last == frame[w].idx = Len(frame[w].ops)
       IN  IF op.op = "raise" THEN OddsFails(w, Err_attribute)
           ELSE IF fault THEN OddsFails(w, Err_sqlite_io)
           ELSE /\ ~SqliteLocked(w)
                /\ sq_tx' = [sq_tx EXCEPT ![w] =
                                Append(@, [sport_key |-> op.row.sport_key,
                                           sport_title |-> op.row.sport_title,
                                           commence_time |-> op.row.commence_time,
                                           home_team |-> op.row.home_team,
                                           away_team |-> op.row.away_team,
                                           bookmaker |-> op.row.bookmaker,
                                           market_key |-> op.row.market_key,
                                           outcome_name |-> op.row.outcome_name,
                                           price |-> op.row.price,
                                           timestamp |-> clock])]
                /\ frame' = [frame EXCEPT ![w].idx = @ + 1,
                                          ![w].pc = IF last THEN "odds_commit" ELSE "odds_insert"]
                /\ UNCHANGED <<pureVars, connVars, clock, odds_data, pg_schema, raw_fixtures,
                               raw_odds_snapshots, pg_tx, resp, exc>>

\* The INSERT gives up waiting for the write lock.
get_odds_locked(w) ==
    /\ frame[w].pc = "odds_insert"
    /\ frame[w].ops[frame[w].idx].op = "insert"
    /\ SqliteLocked(w)
    /\ OddsFails(w, Err_sqlite_locked)

\* conn.commit(), conn.close() and the success response.
get_odds_commit(w, fault) ==
    /\ frame[w].pc = "odds_commit"
    /\ IF fault THEN OddsFails(w, Err_sqlite_io)
       ELSE /\ odds_data' = odds_data (+) SeqBag(sq_tx[w])
            /\ sq_tx' = [sq_tx EXCEPT ![w] = <<>>]
            /\ Return(w, [frame[w] EXCEPT !.sq_conn = "closed"],
                      [Response("success", "Retrieved games") EXCEPT
                           !.count = frame[w].games_count],
                      exc[w])
            /\ UNCHANGED <<pureVars, connVars, clock, pg_schema, raw_fixtures,
                           raw_odds_snapshots, pg_tx>>

\* The frame of a finished handler is released: connections it left open
\* are destroyed with it, which rolls back what they had not committed.
Finalize(w) ==
    /\ frame[w].pc = "returned"
    /\ frame' = [frame EXCEPT ![w] = IdleFrame]
    /\ resp' = [resp EXCEPT ![w] = NoResp]
    /\ exc' = [exc EXCEPT ![w] = NoExc]
    /\ sq_tx' = [sq_tx EXCEPT ![w] = <<>>]
    /\ pg_tx' = [pg_tx EXCEPT ![w] = EmptyPgTx]
    /\ UNCHANGED <<pureVars, connVars, clock, odds_data, pg_schema, raw_fixtures,
                   raw_odds_snapshots>>

\* Time passes.
Tick ==
    /\ clock < MaxClock
    /\ clock' = clock + 1
    /\ UNCHANGED <<pureVars, connVars, odds_data, pg_schema, raw_fixtures,
                   raw_odds_snapshots, sq_tx, pg_tx, reqVars>>

\* ------------------------------------------------------------------------
\* The service
\* ------------------------------------------------------------------------
\* The deployments considered: no database variable set and the odds key
\* left at the placeholder, or DATABASE_URL naming the database behind an
\* empty POSTGRES_URL with the built-in odds key.
ServiceEnvs ==
    { [v \in EnvNames |-> IF v = "ODDS_API_KEY" THEN PlaceholderApiKey ELSE NoneVal],
      [v \in EnvNames |-> IF v = "DATABASE_URL" THEN GoodUrl
                          ELSE IF v = "POSTGRES_URL" THEN <<>> ELSE NoneVal] }

Init ==
    /\ environ \in ServiceEnvs
    /\ conn_result = NoCall
    /\ MathIdle /\ SeasonIdle /\ ServiceIdle

SqliteFaults == {"none", "connect", "execute"}

\* uvicorn.run(app) serves from one process, and no handler awaits: one
\* request is handled at a time.
MainProcess == 1

Next ==
    \/ root(MainProcess)
    \/ \E reachable \in BOOLEAN : health_check(MainProcess, reachable)
    \/ \E reachable \in BOOLEAN, fault \in {"none", "create", "commit", "verify"} :
           initialize_postgres_schema(MainProcess, reachable, fault)
    \/ \E reachable \in BOOLEAN, fault \in {"none", "version", "count"} :
           postgres_health_check(MainProcess, reachable, fault)
    \/ \E fault \in SqliteFaults : data_health(MainProcess, fault)
    \/ \E fault \in SqliteFaults : get_latest_odds(MainProcess, fault)
    \/ \E fault \in SqliteFaults : get_table_info(MainProcess, fault)
    \/ run_historical_etl(MainProcess)
    \/ get_etl_status(MainProcess)
    \/ \E fault \in SqliteFaults, reachable \in BOOLEAN :
           \E rows \in SelectRecentOdds(odds_data) :
               migrate_start(MainProcess, fault, rows, reachable)
    \/ \E fault \in BOOLEAN : migrate_fixture(MainProcess, fault)
    \/ \E fault \in BOOLEAN : migrate_snapshot(MainProcess, fault)
    \/ \E fault \in BOOLEAN : migrate_commit(MainProcess, fault)
    \/ \E api \in ApiResponses(ServiceGames), fault \in {"none", "connect"} :
           get_odds_start(MainProcess, api, fault)
    \/ \E fault \in BOOLEAN : get_odds_insert(MainProcess, fault)
    \/ \E fault \in BOOLEAN : get_odds_commit(MainProcess, fault)
    \/ Finalize(MainProcess)
    \/ Tick

Spec == Init /\ [][Next]_vars

\* ------------------------------------------------------------------------
\* One process serving /data/odds
\* ------------------------------------------------------------------------
\* The games of the service and one with both outcomes of its market.
OddsGames ==
    ServiceGames \cup {Game(Txt_a, Txt_c, <<Outcome(Txt_a, 19100), Outcome(Txt_c, 21255)>>)}

OddsNext ==
    \/ \E api \in ApiResponses(OddsGames), fault \in {"none", "connect"} :
           get_odds_start(MainProcess, api, fault)
    \/ \E fault \in BOOLEAN : get_odds_insert(MainProcess, fault)
    \/ \E fault \in BOOLEAN : get_odds_commit(MainProcess, fault)
    \/ Finalize(MainProcess)
    \/ Tick

OddsSpec == Init /\ [][OddsNext]_vars

\* ------------------------------------------------------------------------
\* Several server processes on the same databases
\* ------------------------------------------------------------------------
\* The rows get_odds stores for the games of the odds API, at any time.
OddsRows ==
    { [sport_key |-> op.row.sport_key, sport_title |-> op.row.sport_title,
       commence_time |-> op.row.commence_time, home_team |-> op.row.home_team,
       away_team |-> op.row.away_team, bookmaker |-> op.row.bookmaker,
       market_key |-> op.row.market_key, outcome_name |-> op.row.outcome_name,
       price |-> op.row.price, timestamp |-> t] :
        op \in {o \in UNION {{GameOps(g)[i] : i \in 1..Len(GameOps(g))} : g \in Games} :
                  o.op = "insert"},
        t \in 0..MaxClock }

\* The contents earlier get_odds requests can have left in odds_data.
OddsTables == {SeqBag(t) : t \in UNION {[1..n -> OddsRows] : n \in 0..MaxOddsRows}}

\* The database is configured, its schema was initialised by an earlier
\* /data/init-postgres, and odds_data holds what earlier /data/odds
\* requests stored.
ConcurrentInit ==
    /\ environ = [v \in EnvNames |-> IF v = "POSTGRES_URL" THEN GoodUrl ELSE NoneVal]
    /\ conn_result = NoCall
    /\ MathIdle /\ SeasonIdle
    /\ clock = MaxClock
    /\ odds_data \in OddsTables
    /\ pg_schema = TRUE
    /\ raw_fixtures = EmptyBag
    /\ raw_odds_snapshots = EmptyBag
    /\ sq_tx = [w \in Workers |-> <<>>]
    /\ pg_tx = [w \in Workers |-> EmptyPgTx]
    /\ frame = [w \in Workers |-> IdleFrame]
    /\ resp = [w \in Workers |-> NoResp]
    /\ exc = [w \in Workers |-> NoExc]

ConcurrentNext ==
    \/ \E w \in Workers : \E rows \in SelectRecentOdds(odds_data) :
           migrate_start(w, "none", rows, TRUE)
    \/ \E w \in Workers : migrate_fixture(w, FALSE)
    \/ \E w \in Workers : migrate_snapshot(w, FALSE)
    \/ \E w \in Workers : migrate_commit(w, FALSE)
    \/ \E w \in Workers : migrate_deadlock(w)
    \/ \E w \in Workers : Finalize(w)

ConcurrentSpec == ConcurrentInit /\ [][ConcurrentNext]_vars

\* ========================================================================
\* Properties
\* ========================================================================

\* C1: whenever add has been called on integers a and b, the value it
\* returned is exactly a + b, negative operands included.
C1_AddReturnsSum == m_op = "add" => m_result = m_a + m_b

\* add(-1, 1) has returned 0.
C1_Witness == m_op = "add" /\ m_a = -1 /\ m_b = 1 /\ m_result = 0

\* C2: whenever multiply has been called on integers a and b, the value it
\* returned is exactly a * b, negative operands included.
C2_MultiplyReturnsProduct == m_op = "multiply" => m_result = m_a * m_b

\* multiply(-1, 5) has returned -5.
C2_Witness == m_op = "multiply" /\ m_a = -1 /\ m_b = 5 /\ m_result = -5

\* C3: add and multiply are commutative: the value returned for (a, b) is
\* the value the same function gives for (b, a).
C3_Commutative ==
    /\ m_op = "add" => m_result = add(m_b, m_a)
    /\ m_op = "multiply" => m_result = multiply(m_b, m_a)

\* add(2, 3) has returned 5, with distinct operands.
C3_Witness == m_op = "add" /\ m_a = 2 /\ m_b = 3 /\ m_result = 5

\* The last two decimal digits of n, computed arithmetically.
LastTwoDigits(n) == <<DigitChar((n \div 10) % 10), DigitChar(n % 10)>>

\* C7: for a four-digit year, get_season_code returns the four characters
\* made of the last two digits of year and the last two digits of year + 1,
\* century roll-over included; and every url download_historical_data
\* requests carries the season code get_season_code gives for the starting
\* year of its season key.
C7_SeasonCode ==
    /\ (season_code # <<>> /\ year >= 1000 /\ year <= 9999) =>
           /\ Len(season_code) = 4
           /\ season_code = LastTwoDigits(year) \o LastTwoDigits(year + 1)
    /\ \A i \in 1..Len(dl_urls) :
           UrlSeasonCode(dl_urls[i]) = get_season_code(SeasonStartYear(seasons[i].season))

\* get_season_code(1999) has returned "9900" and all six seasons were
\* requested.
C7_Witness ==
    /\ year = 1999 /\ season_code = <<"9", "9", "0", "0">>
    /\ dl_idx = Len(seasons) /\ Len(dl_urls) = 6

\* The first of the four variables, in the order of env_vars, that is set
\* to a non-empty value; 0 when there is none.
FirstSetVar(e) ==
    IF \E i \in 1..Len(env_vars) : Truthy(e[env_vars[i]])
    THEN CHOOSE i \in 1..Len(env_vars) :
             /\ Truthy(e[env_vars[i]])
             /\ \A j \in 1..(i - 1) : ~Truthy(e[env_vars[j]])
    ELSE 0

\* C10: get_postgres_connection uses the first of POSTGRES_URL,
\* DATABASE_URL_NEW, BETTING_DB_URL, DATABASE_URL that is set and non-empty,
\* and only that one: it returns a connection exactly when connecting with
\* that url succeeds, returns None when none is set or the connect fails,
\* and never raises.
C10_FirstSetVariableWins ==
    [][\A reachable \in BOOLEAN :
          CallGetPostgresConnection(reachable) =>
              LET first == FirstSetVar(environ)
                  r == conn_result'
              IN  /\ ~r.raised
                  /\ first = 0 => (~r.conn /\ ~r.attempted /\ r.var = "none")
                  /\ first # 0 =>
                        /\ r.var = env_vars[first]
                        /\ r.attempted
                        /\ r.conn = ConnectSucceeds(environ[env_vars[first]], reachable)]_vars

\* POSTGRES_URL is empty, DATABASE_URL_NEW holds a url that fails to
\* connect and DATABASE_URL a working one: the call chose DATABASE_URL_NEW
\* and returned None.
C10_Witness ==
    /\ conn_result.called
    /\ environ["POSTGRES_URL"] = <<>>
    /\ environ["DATABASE_URL_NEW"] = BadUrl
    /\ environ["DATABASE_URL"] = GoodUrl
    /\ conn_result.var = "DATABASE_URL_NEW"
    /\ conn_result.attempted /\ ~conn_result.conn /\ ~conn_result.raised

Returned(w) == frame[w].pc = "returned"

\* C4 as stated: every handler answers HTTP 200, and whenever a step of
\* the request failed (a connect, a statement, the outbound call, the JSON
\* parse) its response has status "error" and the exception text as message.
C4_EveryFailureIsAnErrorResponse ==
    \A w \in Workers :
        Returned(w) =>
            /\ resp[w].http = 200
            /\ exc[w].step_error # "" =>
                   (resp[w].status = "error" /\ resp[w].message = exc[w].step_error)

\* C4 (amended): every handler answers HTTP 200 on every path and lets no
\* exception out; an exception that reaches the handler's own except clause
\* gives status "error" with the exception text as message.  The failures
\* that do not reach it are a Postgres connect that get_postgres_connection
\* swallows (health_check then answers "healthy" with postgres
\* "not_configured", the other Postgres handlers answer "error" with a fixed
\* message) and a table count that postgres_health_check swallows (it
\* answers "success").
C4_CaughtExceptionsAreErrorResponses ==
    \A w \in Workers :
        Returned(w) =>
            /\ resp[w].http = 200
            /\ exc[w].caught # "" =>
                   (resp[w].status = "error" /\ resp[w].message = exc[w].caught)
            /\ (exc[w].step_error # "" /\ exc[w].caught = "") =>
                   \/ /\ exc[w].step_error = Err_connect
                      /\ frame[w].handler = "health_check"
                      /\ resp[w].status = "healthy"
                      /\ resp[w].postgres = "not_configured"
                   \/ /\ exc[w].step_error = Err_connect
                      /\ frame[w].handler \in {"initialize_postgres_schema",
                                               "postgres_health_check",
                                               "migrate_odds_to_postgres"}
                      /\ resp[w].status = "error"
                      /\ resp[w].message # exc[w].step_error
                   \/ /\ exc[w].step_error \in {Err_server, Err_relation}
                      /\ frame[w].handler = "postgres_health_check"
                      /\ resp[w].status = "success"

\* A migration whose fixture insert was rejected for its length has
\* answered with that error.
C4_Witness ==
    \E w \in Workers :
        /\ Returned(w)
        /\ frame[w].handler = "migrate_odds_to_postgres"
        /\ exc[w].caught = "value too long for type character varying"
        /\ resp[w].status = "error"
        /\ resp[w].message = "value too long for type character varying"

\* C5: once a handler has returned, no SQLite or Postgres connection that
\* it opened is still open.
C5_NoConnectionLeftOpen ==
    \A w \in Workers :
        Returned(w) => (frame[w].sq_conn # "open" /\ frame[w].pg_conn # "open")

\* The rows of a table that carry fixture id id, and how many there are.
\* ------------------------------------------------------------------------
\* Repeated migrations of an odds_data that does not change
\* ------------------------------------------------------------------------
\* odds_data after many /data/odds requests: MigrateLimit rows with one
\* timestamp and one more row, older, newer, or of the same second.
BigTables ==
    LET a == CHOOSE r \in OddsRows : r.home_team = Txt_a_sp_b /\ r.timestamp = 0
        b == CHOOSE r \in OddsRows : r.home_team = Txt_a /\ r.timestamp = 0
    IN  {Copies([a EXCEPT !.timestamp = t[1]], MigrateLimit) (+) Copies([b EXCEPT !.timestamp = t[2]], 1) :
             t \in {<<1, 0>>, <<0, 1>>, <<1, 1>>}}

\* The schema is initialised, the Postgres tables are empty, and odds_data
\* holds what earlier /data/odds requests stored.
MigrationInit ==
    /\ environ = [v \in EnvNames |-> IF v = "POSTGRES_URL" THEN GoodUrl ELSE NoneVal]
    /\ conn_result = NoCall
    /\ MathIdle /\ SeasonIdle
    /\ clock = MaxClock
    /\ odds_data \in OddsTables \cup BigTables
    /\ pg_schema = TRUE
    /\ raw_fixtures = EmptyBag
    /\ raw_odds_snapshots = EmptyBag
    /\ sq_tx = [w \in Workers |-> <<>>]
    /\ pg_tx = [w \in Workers |-> EmptyPgTx]
    /\ frame = [w \in Workers |-> IdleFrame]
    /\ resp = [w \in Workers |-> NoResp]
    /\ exc = [w \in Workers |-> NoExc]

\* One process serving /data/migrate-to-postgres again and again.
MigrationNext ==
    \/ /\ Idle(MainProcess)
       /\ \E rows \in SelectRecentOdds(odds_data) : migrate_start(MainProcess, "none", rows, TRUE)
    \/ migrate_fixture(MainProcess, FALSE)
    \/ migrate_snapshot(MainProcess, FALSE)
    \/ migrate_commit(MainProcess, FALSE)
    \/ Finalize(MainProcess)

MigrationSpec == MigrationInit /\ [][MigrationNext]_vars

RowsWithId(table, id) == {r \in BagToSet(table) : r.fixture_id = id}
CountWithId(table, id) == SumOver([r \in RowsWithId(table, id) |-> CopiesIn(r, table)], RowsWithId(table, id))

PrimaryKeyUnique(fixtures) ==
    \A f, g \in BagToSet(fixtures) :
        /\ CopiesIn(f, fixtures) = 1
        /\ f.fixture_id = g.fixture_id => f = g

\* C6: under any interleaving of migrations, raw_fixtures never holds two
\* rows with the same fixture_id and no row of it is ever altered or
\* removed; and a fixture insert that finds its fixture_id already in
\* raw_fixtures adds nothing and raises nothing: the migration goes on to
\* the snapshot insert.
C6_PrimaryKeyUnique ==
    [][/\ PrimaryKeyUnique(raw_fixtures')
       /\ \A f \in BagToSet(raw_fixtures) : CopiesIn(f, raw_fixtures') = CopiesIn(f, raw_fixtures)
       /\ \A w \in Workers :
              (/\ frame[w].pc = "mig_fixture"
               /\ frame'[w] # frame[w]
               /\ HasFixture(raw_fixtures, FixtureId(CurrentRow(w)))) =>
                  /\ pg_tx' = pg_tx
                  /\ raw_fixtures' = raw_fixtures
                  /\ frame'[w].pc = "mig_snapshot"
                  /\ exc'[w] = NoExc]_vars

\* A migration has passed the fixture insert of a row whose fixture_id
\* another migration had committed from a row with different team names;
\* its own transaction holds no fixture of that id.
C6_Witness ==
    \E w \in Workers :
        /\ frame[w].pc = "mig_snapshot"
        /\ exc[w].caught = ""
        /\ \E f \in BagToSet(raw_fixtures) :
               /\ f.fixture_id = FixtureId(CurrentRow(w))
               /\ f.home_team # CurrentRow(w).home_team
        /\ ~HasFixture(SeqBag(pg_tx[w].fixtures), FixtureId(CurrentRow(w)))

\* C8: a request to /etl/historical-fixtures answers "success", opens no
\* database connection, and leaves every table of SQLite and Postgres, and
\* every open transaction, as it was.
C8_EtlTouchesNothing ==
    [][\A w \in Workers :
          (frame[w].pc = "idle" /\ frame'[w].handler = "run_historical_etl") =>
              /\ resp'[w].http = 200
              /\ resp'[w].status = "success"
              /\ frame'[w].sq_conn = "none"
              /\ frame'[w].pg_conn = "none"
              /\ UNCHANGED <<clock, odds_data, pg_schema, raw_fixtures,
                             raw_odds_snapshots, sq_tx, pg_tx>>]_vars

\* The endpoint has answered while both databases hold rows.
C8_Witness ==
    \E w \in Workers :
        /\ Returned(w)
        /\ frame[w].handler = "run_historical_etl"
        /\ resp[w].status = "success"
        /\ odds_data # EmptyBag
        /\ raw_fixtures # EmptyBag
        /\ raw_odds_snapshots # EmptyBag

\* The first row of rows whose derived fixture id is id.
FirstWithId(rows, id) ==
    CHOOSE i \in 1..Len(rows) :
        /\ FixtureId(rows[i]) = id
        /\ \A j \in 1..(i - 1) : FixtureId(rows[j]) # id

\* C9: the fixture id is the text sport_key_commence_time_home_vs_away with
\* no space left in it, so rows with different (sport_key, commence_time,
\* home_team, away_team) can share an id.  When a migration commits, each
\* id of its rows has exactly one raw_fixtures row: the one that was there
\* before, or else the fixture of the first of its rows with that id; and
\* every one of its rows with that id has added a snapshot under it.
C9_CollidingRowsShareOneFixture ==
    [][\A w \in Workers :
          (/\ frame[w].pc = "mig_commit"
           /\ frame'[w].pc = "returned"
           /\ resp'[w].status = "success") =>
              \A i \in 1..Len(frame[w].sqlite_data) :
                  LET rows == frame[w].sqlite_data
                      id == FixtureId(rows[i])
                  IN  /\ \A c \in 1..Len(id) : id[c] # " "
                      /\ Len(id) = Len(PyFormat(rows[i].sport_key))
                                   + Len(PyFormat(rows[i].commence_time))
                                   + Len(PyFormat(rows[i].home_team))
                                   + Len(PyFormat(rows[i].away_team)) + 6
                      /\ CountWithId(raw_fixtures', id) = 1
                      /\ \A f \in RowsWithId(raw_fixtures', id) :
                             IF HasFixture(raw_fixtures, id)
                             THEN BagIn(f, raw_fixtures)
                             ELSE f = FixtureRow(rows[FirstWithId(rows, id)])
                      /\ CountWithId(raw_odds_snapshots', id)
                           = CountWithId(raw_odds_snapshots, id)
                             + Cardinality({j \in 1..Len(rows) : FixtureId(rows[j]) = id})]_vars

\* A migration of two rows that differ only in "a b" against "a_b" as home
\* team has succeeded: one fixture, that of the first row, and two
\* snapshots under its id.
C9_Witness ==
    \E w \in Workers :
        /\ Returned(w)
        /\ frame[w].handler = "migrate_odds_to_postgres"
        /\ resp[w].status = "success"
        /\ Len(frame[w].sqlite_data) = 2
        /\ LET r1 == frame[w].sqlite_data[1]
               r2 == frame[w].sqlite_data[2]
           IN  /\ FixtureTuple(r1) # FixtureTuple(r2)
               /\ {r1.home_team, r2.home_team} = {Txt_a_sp_b, Txt_a_us_b}
               /\ FixtureId(r1) = FixtureId(r2)
               /\ raw_fixtures = SetToBag({FixtureRow(r1)})
               /\ FixtureRow(r1) # FixtureRow(r2)
               /\ BagCardinality(raw_odds_snapshots) = 2
               /\ CountWithId(raw_odds_snapshots, FixtureId(r1)) = 2

\* The same for two rows whose team names split "a_vs_b_vs_c" differently.
C9_WitnessBoundary ==
    \E w \in Workers :
        /\ Returned(w)
        /\ resp[w].status = "success"
        /\ Len(frame[w].sqlite_data) = 2
        /\ {frame[w].sqlite_data[1].home_team, frame[w].sqlite_data[2].home_team}
               = {Txt_a, Txt_a_vs_b}
        /\ BagCardinality(raw_fixtures) = 1
        /\ BagCardinality(raw_odds_snapshots) = 2

\* C11: download_season_data raises ValueError for a league that is no key
\* of leagues, having neither slept nor sent a request; for a league that
\* is a key it raises nothing, returns None whenever the request, the
\* status check or the CSV parse failed or the frame is empty, and has sent
\* exactly one GET when it returns.
C11_DownloadErrors ==
    /\ dsd.gets <= 1 /\ dsd.sleeps <= 1
    /\ (dsd.pc # "idle" /\ dsd.league \notin DOMAIN leagues) =>
           /\ dsd.pc = "done"
           /\ dsd.raised = "ValueError"
           /\ dsd.sleeps = 0 /\ dsd.gets = 0
    /\ (dsd.pc # "idle" /\ dsd.league \in DOMAIN leagues) =>
           /\ dsd.raised = ""
           /\ dsd.gets > 0 => dsd.sleeps = 1
           /\ dsd.pc = "done" =>
                  /\ dsd.gets = 1
                  /\ dsd.returned \in {"None", "DataFrame"}
                  /\ dsd.failure # "" <=> dsd.returned = "None"

\* A call for EPL 2023 whose CSV did not parse has returned None after one
\* GET to the 2324/E0.csv url.
C11_Witness ==
    /\ dsd.pc = "done"
    /\ dsd.league = "EPL" /\ dsd.season_year = 2023
    /\ dsd.url = base_url \o <<"/", "2", "3", "2", "4", "/", "E", "0", ".", "c", "s", "v">>
    /\ dsd.failure = "ParserError"
    /\ dsd.returned = "None" /\ dsd.raised = ""
    /\ dsd.gets = 1

\* The snapshot rows of a table of odds rows: how many of its rows are
\* stored as snapshot sn.
SnapshotCopies(sn, table) ==
    LET from == {r \in BagToSet(table) : StoredSnapshot(SnapshotRow(r)) = sn}
    IN  SumOver([r \in from |-> CopiesIn(r, table)], from)
SnapshotsOf(table) == {StoredSnapshot(SnapshotRow(r)) : r \in BagToSet(table)}

\* C12: over an odds_data that does not change, every successful migration
\* reads the Min(k, 100) rows of latest timestamp, reports that number as
\* migrated_count and adds one snapshot per row read; when k <= 100,
\* raw_odds_snapshots holds each source row's snapshot N times after N
\* successful runs, N*k rows in all, and a run after the first adds no
\* fixture.
C12_MigrationNotIdempotent ==
    [][/\ odds_data' = odds_data
       /\ \A w \in Workers :
              (/\ frame[w].pc = "mig_commit"
               /\ frame'[w].pc = "returned"
               /\ resp'[w].status = "success") =>
                  LET rows == frame[w].sqlite_data
                      k == BagCardinality(odds_data)
                      left == odds_data (-) SeqBag(rows)
                  IN  /\ Len(rows) = Min(k, MigrateLimit)
                      /\ resp'[w].count = Len(rows)
                      /\ SeqBag(rows) \sqsubseteq odds_data
                      /\ \A i \in 1..Len(rows) : \A q \in BagToSet(left) :
                             q.timestamp <= rows[i].timestamp
                      /\ BagCardinality(raw_odds_snapshots')
                           = BagCardinality(raw_odds_snapshots) + Len(rows)
                      /\ \A sn \in SnapshotsOf(odds_data) :
                             CopiesIn(sn, raw_odds_snapshots')
                               = CopiesIn(sn, raw_odds_snapshots) + SnapshotCopies(sn, SeqBag(rows))
                      /\ (k <= MigrateLimit /\ raw_odds_snapshots # EmptyBag) =>
                             raw_fixtures' = raw_fixtures
       /\ BagCardinality(odds_data) <= MigrateLimit =>
              \E n \in 0..MaxSnapshots :
                  /\ BagCardinality(raw_odds_snapshots') = n * BagCardinality(odds_data)
                  /\ \A sn \in SnapshotsOf(odds_data) \cup BagToSet(raw_odds_snapshots') :
                         CopiesIn(sn, raw_odds_snapshots') = n * SnapshotCopies(sn, odds_data)]_vars

\* The second migration of a table of two rows with different fixture ids
\* has succeeded: migrated_count 2, four snapshots, each row's twice, and
\* the two fixtures of the first run.
C12_Witness ==
    \E w \in Workers :
        /\ Returned(w)
        /\ frame[w].handler = "migrate_odds_to_postgres"
        /\ resp[w].status = "success"
        /\ resp[w].count = 2
        /\ BagCardinality(odds_data) = 2
        /\ BagCardinality(raw_odds_snapshots) = 4
        /\ \A sn \in BagToSet(raw_odds_snapshots) : CopiesIn(sn, raw_odds_snapshots) = 2
        /\ BagCardinality(raw_fixtures) = 2

\* A migration of a table of 101 rows has succeeded with migrated_count
\* 100, and the row left out is the oldest.
C12_WitnessLimit ==
    \E w \in Workers :
        /\ Returned(w)
        /\ resp[w].status = "success"
        /\ resp[w].count = MigrateLimit
        /\ BagCardinality(odds_data) = MigrateLimit + 1
        /\ BagCardinality(raw_odds_snapshots) = MigrateLimit
        /\ \E q \in BagToSet(odds_data) :
               /\ q.timestamp = 0
               /\ \A i \in 1..MigrateLimit : frame[w].sqlite_data[i].timestamp = 1

\* The rows of the insert statements of a request, without the timestamp
\* column.
InsertedRows(ops) == SeqBag([i \in 1..Len(ops) |-> ops[i].row])
WithoutTimestamp(rows) ==
    SeqBag([i \in 1..Len(rows) |->
              [f \in DOMAIN rows[i] \ {"timestamp"} |-> rows[i][f]]])

\* C13: a /data/odds request that got no answer, an answer other than 200,
\* a body that is no JSON, or an exception at its connect, in its insert
\* loop or at its commit returns status "error"; and odds_data changes only
\* in the commit of a request that was answered 200 with JSON and raised
\* nothing, which adds the row of every insert of the request and returns
\* "success".  So no row of a request that returns "error" is ever
\* committed.
C13_OddsAllOrNothing ==
    [][/\ \A w \in Workers :
              (/\ frame'[w].pc = "returned"
               /\ frame'[w].handler = "get_odds"
               /\ \/ frame'[w].response.kind # "answer"
                  \/ frame'[w].response.code # 200
                  \/ ~frame'[w].response.json
                  \/ exc'[w].step_error # "") =>
                  /\ resp'[w].status = "error"
                  /\ odds_data' = odds_data
       /\ odds_data' # odds_data =>
              \E w \in Workers :
                  /\ frame[w].handler = "get_odds"
                  /\ frame[w].pc = "odds_commit" /\ frame'[w].pc = "returned"
                  /\ frame[w].response.kind = "answer"
                  /\ frame[w].response.code = 200
                  /\ frame[w].response.json
                  /\ exc'[w] = NoExc
                  /\ resp'[w].status = "success"
                  /\ \A i \in 1..Len(frame[w].ops) : frame[w].ops[i].op = "insert"
                  /\ odds_data' = odds_data (+) SeqBag(sq_tx[w])
                  /\ WithoutTimestamp(sq_tx[w]) = InsertedRows(frame[w].ops)]_vars

\* A request answered 200 with a game of two outcomes has returned "error"
\* after its first insert went through and its second failed; odds_data is
\* empty and the first row is still uncommitted on the open connection.
C13_Witness ==
    \E w \in Workers :
        /\ Returned(w)
        /\ frame[w].handler = "get_odds"
        /\ frame[w].response.code = 200 /\ frame[w].response.json
        /\ resp[w].status = "error"
        /\ exc[w].caught = Err_sqlite_io
        /\ Len(frame[w].ops) = 2 /\ frame[w].idx = 2
        /\ Len(sq_tx[w]) = 1
        /\ frame[w].sq_conn = "open"
        /\ odds_data = EmptyBag

\* Every committed snapshot has its fixture committed.
NoOrphanSnapshot(fixtures, snapshots) ==
    \A sn \in BagToSet(snapshots) : HasFixture(fixtures, sn.fixture_id)

\* C14: raw_fixtures and raw_odds_snapshots change only in the one commit
\* of a migration, after its loop has inserted a snapshot for every row
\* read and nothing has failed, and that commit adds all the rows of the
\* request's transaction; a migration in which a connect, an insert or the
\* commit failed returns status "error" and changes neither table; and no
\* committed snapshot is ever without its raw_fixtures row.
C14_MigrationAllOrNothing ==
    [][/\ \A w \in Workers :
              (/\ frame'[w].pc = "returned"
               /\ frame[w].pc # "returned"
               /\ frame'[w].handler = "migrate_odds_to_postgres"
               /\ exc'[w].step_error # "") =>
                  /\ resp'[w].status = "error"
                  /\ raw_fixtures' = raw_fixtures
                  /\ raw_odds_snapshots' = raw_odds_snapshots
       /\ (raw_fixtures' # raw_fixtures \/ raw_odds_snapshots' # raw_odds_snapshots) =>
              \E w \in Workers :
                  /\ frame[w].handler = "migrate_odds_to_postgres"
                  /\ frame[w].pc = "mig_commit" /\ frame'[w].pc = "returned"
                  /\ resp'[w].status = "success"
                  /\ exc'[w] = NoExc
                  /\ Len(pg_tx[w].snapshots) = Len(frame[w].sqlite_data)
                  /\ raw_fixtures' = raw_fixtures (+) SeqBag(pg_tx[w].fixtures)
                  /\ raw_odds_snapshots' = raw_odds_snapshots (+) SeqBag(pg_tx[w].snapshots)
       /\ NoOrphanSnapshot(raw_fixtures', raw_odds_snapshots')]_vars

\* A migration of two rows has returned "error" at its second row, after
\* the fixture and the snapshot of its first row were inserted: both are
\* still uncommitted on the open connection and the tables are empty.
C14_Witness ==
    \E w \in Workers :
        /\ Returned(w)
        /\ frame[w].handler = "migrate_odds_to_postgres"
        /\ resp[w].status = "error"
        /\ Len(frame[w].sqlite_data) = 2 /\ frame[w].idx = 2
        /\ Len(pg_tx[w].fixtures) = 1 /\ Len(pg_tx[w].snapshots) = 1
        /\ frame[w].pg_conn = "open"
        /\ raw_fixtures = EmptyBag /\ raw_odds_snapshots = EmptyBag

\* The odds columns of a snapshot that are not NULL.
OddsColumns == {"home_odds", "away_odds", "draw_odds"}
NonNullOdds(sn) == {c \in OddsColumns : sn[c] # NoPrice}

\* The value a stored odds column must have for a source price when its
\* condition holds: the price as given.
OddsAsGiven(value, holds, price) == value = (IF holds THEN price ELSE NoPrice)

\* The same, with the price kept to three decimals: a multiple of 0.001
\* no further than 0.0005 from it (prices count units of 0.0001).
OddsToThreeDecimals(value, holds, price) ==
    IF holds /\ price # NoPrice
    THEN /\ value # NoPrice
         /\ value % 10 = 0
         /\ value - price <= 5 /\ price - value <= 5
    ELSE value = NoPrice

\* A migration commits with success.
MigrationCommits(w) ==
    /\ frame[w].pc = "mig_commit"
    /\ frame'[w].pc = "returned"
    /\ resp'[w].status = "success"

\* C15 as stated: each row read by a migration that commits adds exactly
\* one snapshot, which has at most one odds column non-null, and each
\* column holds the row's price when its condition on outcome_name holds
\* and NULL otherwise.
C15_AtMostOneOddsEqualToPrice ==
    [][\A w \in Workers :
          MigrationCommits(w) =>
              LET rows == frame[w].sqlite_data
                  sns == pg_tx[w].snapshots
              IN  /\ Len(sns) = Len(rows)
                  /\ raw_odds_snapshots' = raw_odds_snapshots (+) SeqBag(sns)
                  /\ \A i \in 1..Len(rows) :
                         /\ Cardinality(NonNullOdds(sns[i])) <= 1
                         /\ OddsAsGiven(sns[i].home_odds,
                                        rows[i].outcome_name = rows[i].home_team, rows[i].price)
                         /\ OddsAsGiven(sns[i].away_odds,
                                        rows[i].outcome_name = rows[i].away_team, rows[i].price)
                         /\ OddsAsGiven(sns[i].draw_odds,
                                        rows[i].outcome_name = Txt_draw, rows[i].price)]_vars

\* C15 (amended): each row read by a migration that commits adds exactly
\* one snapshot, under the row's fixture id and timestamp; its three odds
\* columns are set independently of each other: home_odds is the price to
\* three decimals when outcome_name equals home_team, away_odds when it
\* equals away_team, draw_odds when it equals 'draw', and NULL otherwise.
\* So at most one is non-null when home_team, away_team and 'draw' are
\* three different texts, and all are NULL for any other outcome_name,
\* 'Draw' included.
C15_OddsColumnsSetIndependently ==
    [][\A w \in Workers :
          MigrationCommits(w) =>
              LET rows == frame[w].sqlite_data
                  sns == pg_tx[w].snapshots
              IN  /\ Len(sns) = Len(rows)
                  /\ raw_odds_snapshots' = raw_odds_snapshots (+) SeqBag(sns)
                  /\ \A i \in 1..Len(rows) :
                         /\ sns[i].fixture_id = FixtureId(rows[i])
                         /\ sns[i].snapshot_timestamp = rows[i].timestamp
                         /\ OddsToThreeDecimals(sns[i].home_odds,
                                rows[i].outcome_name = rows[i].home_team, rows[i].price)
                         /\ OddsToThreeDecimals(sns[i].away_odds,
                                rows[i].outcome_name = rows[i].away_team, rows[i].price)
                         /\ OddsToThreeDecimals(sns[i].draw_odds,
                                rows[i].outcome_name = Txt_draw, rows[i].price)
                         /\ Cardinality({rows[i].home_team, rows[i].away_team, Txt_draw}) = 3 =>
                                Cardinality(NonNullOdds(sns[i])) <= 1
                         /\ rows[i].outcome_name \notin {rows[i].home_team, rows[i].away_team, Txt_draw} =>
                                NonNullOdds(sns[i]) = {}]_vars

\* A migration has committed the snapshot of a row whose home_team,
\* away_team and outcome_name are the same text: home_odds and away_odds
\* both hold its price.
C15_Witness ==
    \E w \in Workers :
        /\ Returned(w)
        /\ frame[w].handler = "migrate_odds_to_postgres"
        /\ resp[w].status = "success"
        /\ \E i \in 1..Len(frame[w].sqlite_data) :
               LET row == frame[w].sqlite_data[i]
               IN  /\ row.home_team = row.away_team
                   /\ row.outcome_name = row.home_team
                   /\ \E sn \in BagToSet(raw_odds_snapshots) :
                          /\ sn.fixture_id = FixtureId(row)
                          /\ sn.home_odds = row.price
                          /\ sn.away_odds = row.price
                          /\ sn.draw_odds = NoPrice

====
